---- MODULE Spec2Model ----
(***************************************************************************)
(* Session trace and conversation orchestrator of the memory-system web UI *)
(* (backend/main.py, backend/core/conversation.py).                        *)
(*                                                                         *)
(* The process holds one global conversation_manager.  Every POST          *)
(* /api/chat starts one async generator send_message_streaming bound to    *)
(* the manager that is current at that moment; the generator runs          *)
(* atomically between two suspension points (an await on the LLM stream or *)
(* a yield of an outward event), so every action below is one such         *)
(* segment, or one synchronous HTTP handler.                               *)
(*                                                                         *)
(* SessionTrace (session_trace.py) and the memory tool (memory_tool.py)    *)
(* are modelled by their contract: events are kept in memory and appended  *)
(* in order (an append does not fail), finalize stamps end_time and writes *)
(* the record (it can fail with a storage error and then leaves the trace  *)
(* as it was; a second finalize is a no-op), and the memory tool logs      *)
(* tool_call / tool_result into the trace given to set_trace.  The LLM is  *)
(* an external collaborator: what it streams, whether it raises and the    *)
(* usage it reports are chosen nondeterministically.  A response that is   *)
(* cancelled by the client is not modelled.                                *)
(*                                                                         *)
(* The diagram renderer (scripts/generate_sequence_diagram.py) is a pure   *)
(* function of a session record.  Its texts are sequences of characters,   *)
(* its output the list of lines it joins; SpecRender follows one call of   *)
(* generate_mermaid_diagram one iteration of its loop at a time, over logs *)
(* drawn from bounded sets, and generate_mermaid_diagram is the same walk  *)
(* as an operator, applied to the orchestrator's own traces.               *)
(***************************************************************************)
EXTENDS Integers, Sequences, FiniteSets, TLC

\* ---- bounds of the model ------------------------------------------------
MaxTurns == 2          \* chat requests over the life of the process
MaxManagers == 2       \* ConversationManager objects ever constructed
MaxTraces == 2         \* SessionTrace objects ever constructed

\* ---- inputs ---------------------------------------------------------------
\* Python's None: an Optional usage field that is absent.
None == -1
\* value of the global conversation_manager before any session exists
NoManager == 0
\* What the external LLM streams in one turn: a sequence of signals, each a
\* text delta <<"text", opens_new_block, chunk>> or a tool use
\* <<"tool", tool_succeeds>>.  After a tool use the runner starts the next
\* message, so the final message holds the text blocks streamed after the
\* last tool use.
Streams == {
    << <<"text", TRUE, "a">>, <<"text", FALSE, "b">> >>,
    << <<"text", TRUE, "a">>, <<"tool", TRUE>>, <<"text", TRUE, "b">> >>,
    << <<"text", TRUE, "a">>, <<"tool", FALSE>>, <<"text", TRUE, "b">>,
       <<"text", TRUE, "c">> >> }
\* message texts a client may send
UserMessages == {"hi"}
\* (model, loaded system prompt) pairs a client may initialize with
Configs == {<<"m1", "p1">>, <<"m2", "p2">>}
\* api_key values of SessionInitialize: empty or set
ApiKeys == {"", "k"}
\* usage of a completed call: <<input_tokens, output_tokens,
\* cache_read_input_tokens, cache_creation_input_tokens>>; the two cache
\* fields are Optional in the vendor type and can be None.
Usages == {<<2, 1, 0, 1>>, <<1, 1, None, 0>>}

Turns == 1..MaxTurns

VARIABLES
    conversation_manager,  \* main.py global: NoManager or index into managers
    managers,              \* every ConversationManager constructed so far
    traces,                \* every SessionTrace constructed so far
    replaced,              \* replaced[k]: the trace that trace k took over from
                           \* in clear_memories, 0 when made by __init__
    turns,                 \* one record per send_message_streaming generator
    alive,                 \* FALSE once the lifespan shutdown has run
    walk                   \* one call of generate_mermaid_diagram: its input
                           \* and its locals (generate_sequence_diagram.py)

vars == <<conversation_manager, managers, traces, replaced, turns, alive,
          walk>>

\* ---- SessionTrace ---------------------------------------------------------

\* SessionTrace(model, system_prompt)
SessionTrace(model, system_prompt) ==
    [model |-> model, system_prompt |-> system_prompt,
     events |-> <<>>, end_time |-> "unset"]

\* items: sequence of <<event_type, payload>>, logged one after another on
\* trace k on behalf of turn t (the turn is kept with the event so that the
\* properties can tell the turns of one trace apart).
log_events(tr, k, t, items) ==
    [tr EXCEPT ![k].events = @ \o
        [i \in 1..Len(items) |->
            [event_type |-> items[i][1], turn |-> t, payload |-> items[i][2]]]]

\* SessionTrace.finalize on trace k: stamps end_time once; a second call
\* changes nothing.
trace_finalize(tr, k) ==
    IF tr[k].end_time = "unset" THEN [tr EXCEPT ![k].end_time = "set"] ELSE tr

Finalized(k) == traces[k].end_time # "unset"

\* ---- ConversationManager --------------------------------------------------

ZeroTotals == <<0, 0, 0, 0>>

\* ConversationManager.__init__ with a fresh trace at index k
ConversationManager(model, system_prompt, k) ==
    [model |-> model, system_prompt |-> system_prompt,
     messages |-> <<>>, trace |-> k, sink |-> k, totals |-> ZeroTotals]

\* lines 167-170: the four += run in order; the first None operand raises
\* TypeError and leaves the later counters untouched.
FirstNone(u) ==
    IF \E j \in 1..4 : u[j] = None
    THEN CHOOSE j \in 1..4 : u[j] = None /\ \A i \in 1..(j - 1) : u[i] # None
    ELSE 5

add_usage(totals, u) ==
    [j \in 1..4 |-> IF j < FirstNone(u) THEN totals[j] + u[j] ELSE totals[j]]

usage_raises(u) == FirstNone(u) <= 4

\* ConversationManager.get_token_stats
get_token_stats(m) == managers[m].totals

\* variant of error_events: an except block that reports the error outward
\* without logging it
error_events_unlogged(e) == <<>>

\* lines 201-207: what the except block logs for exception e
error_events(e) == << <<"error", e>> >>

\* variant of turn_start_events: the two log calls placed after the
\* tool_runner call, so that a call that raises skips them
turn_start_events_after_call(user_message, messages_count, raises) ==
    IF raises THEN error_events("APIError")
    ELSE << <<"user_input", user_message>>, <<"llm_request", messages_count>> >>

\* lines 99-119: what the first segment of a turn logs; the tool_runner call
\* that may raise comes after the two log calls.
turn_start_events(user_message, messages_count, raises) ==
    << <<"user_input", user_message>>, <<"llm_request", messages_count>> >>
    \o (IF raises THEN error_events("APIError") ELSE <<>>)

\* variant of completion_out: done yielded before the usage is tracked, so
\* that a failing += is reported after done
completion_out_done_first(u, tot) ==
    <<[type |-> "done", data |-> [last |-> u, total |-> tot]]>>
    \o (IF usage_raises(u)
        THEN <<[type |-> "error", data |-> [message |-> "TypeError"]]>>
        ELSE <<>>)

\* variant of completion_out: the snapshot's totals taken from the deltas of
\* the turn instead of the manager's counters
completion_out_delta_as_total(u, tot) ==
    IF usage_raises(u)
    THEN <<[type |-> "error", data |-> [message |-> "TypeError"]]>>
    ELSE <<[type |-> "done", data |-> [last |-> u, total |-> u]]>>

\* lines 160-207: what the last segment of a turn yields, given the usage u
\* of the final message and the totals tot after lines 167-170.
completion_out(u, tot) ==
    IF usage_raises(u)
    THEN <<[type |-> "error", data |-> [message |-> "TypeError"]]>>
    ELSE <<[type |-> "done", data |-> [last |-> u, total |-> tot]]>>

\* lines 217-223 of clear_memories
clear_state(mgr) == [mgr EXCEPT !.messages = <<>>, !.totals = ZeroTotals]

\* variant of start_new_trace: set_trace is not called on the new trace
start_new_trace_stale_sink(mgr, k) == [mgr EXCEPT !.trace = k]

\* lines 227-228 of clear_memories: the new trace k becomes the manager's
\* trace and the memory tool's sink
start_new_trace(mgr, k) == [mgr EXCEPT !.trace = k, !.sink = k]

\* ---- scripts/generate_sequence_diagram.py -----------------------------------
\* A text is a sequence of characters (one-character strings), so that
\* len(), slicing and replace() are the ones of the code.  A line of the
\* diagram is a fixed template, named by kind, and the text formatted into it.

Line(kind, text) == [kind |-> kind, text |-> text]

\* text[:n]
Take(text, n) == SubSeq(text, 1, IF Len(text) < n THEN Len(text) ELSE n)

\* text.replace(c, by) for a one-character c
RECURSIVE replace(_, _, _)
replace(text, c, by) ==
    IF text = <<>> THEN <<>>
    ELSE (IF Head(text) = c THEN by ELSE <<Head(text)>>)
         \o replace(Tail(text), c, by)

\* sep.join(parts)
RECURSIVE join(_, _)
join(sep, parts) ==
    IF parts = <<>> THEN <<>>
    ELSE IF Len(parts) = 1 THEN parts[1]
    ELSE parts[1] \o sep \o join(sep, Tail(parts))

\* str(n) of a natural number
RECURSIVE str(_)
str(n) ==
    LET digit(d) == <<"0", "1", "2", "3", "4", "5", "6", "7", "8", "9">>[d + 1]
    IN  IF n < 10 THEN <<digit(n)>> ELSE str(n \div 10) \o <<digit(n % 10)>>

\* repr(v) of a str without single quotes
repr(v) == <<"'">> \o replace(v, "\n", <<"\\", "n">>) \o <<"'">>

\* repr of a list of str
repr_list(names) ==
    <<"[">> \o join(<<",", " ">>, [i \in 1..Len(names) |-> repr(names[i])])
            \o <<"]">>

Ellipsis == <<".", ".", ".">>
BreakMarker == <<"<", "b", "r", "/", ">">>
ErrorPrefix == <<"E", "R", "R", "O", "R", ":", " ">>
ErrorFallback == <<"E", "r", "r", "o", "r">>

DefaultMaxLength == 50     \* escape_text(text, max_length=50)
ResultMaxLength == 40      \* escape_text(result, 40), escape_text(error, 40)
ResponseMaxLength == 60    \* escape_text(content, 60)
ErrorMaxLength == 40       \* escape_text(message, 40)
ParamValueMaxLength == 30  \* repr(v)[:30]
ParamsMaxLength == 50      \* params_str[:50]

\* escape_text without the truncation
escape_text_untruncated(text, max_length) ==
    replace(replace(text, "\n", BreakMarker), "\"", <<"'">>)

escape_text(text, max_length) ==
    LET escaped == replace(replace(text, "\n", BreakMarker), "\"", <<"'">>)
    IN  IF Len(escaped) > max_length
        THEN Take(escaped, max_length) \o Ellipsis
        ELSE escaped

\* An event of the log with event.get's defaults for the fields it lacks.
\* parameters is the dict as its sequence of <<key, value>> items.
Event(event_type) ==
    [event_type |-> event_type, content |-> <<>>, tools |-> <<>>,
     tool_name |-> <<>>, command |-> <<>>, parameters |-> <<>>,
     success |-> TRUE, error |-> <<>>, result |-> <<>>,
     message |-> <<"U", "n", "k", "n", "o", "w", "n", " ",
                   "e", "r", "r", "o", "r">>]

MemoryToolName == <<"m", "e", "m", "o", "r", "y">>

\* the header without the Memory System participant
header_three_participants(trace_data) ==
    << Line("front_matter", <<>>),
       Line("session_id", trace_data.session_id),
       Line("start_time", trace_data.start_time),
       Line("model", trace_data.model),
       Line("front_matter", <<>>),
       Line("blank", <<>>),
       Line("fence_open", <<>>),
       Line("sequenceDiagram", <<>>),
       Line("participant", <<"User">>),
       Line("participant", <<"HostApp">>),
       Line("participant", <<"LLM">>),
       Line("blank", <<>>),
       Line("session_started", <<>>) >>

\* lines 53-68
header(trace_data) ==
    << Line("front_matter", <<>>),
       Line("session_id", trace_data.session_id),
       Line("start_time", trace_data.start_time),
       Line("model", trace_data.model),
       Line("front_matter", <<>>),
       Line("blank", <<>>),
       Line("fence_open", <<>>),
       Line("sequenceDiagram", <<>>),
       Line("participant", <<"User">>),
       Line("participant", <<"HostApp">>),
       Line("participant", <<"LLM">>),
       Line("participant", <<"MemorySystem">>),
       Line("blank", <<>>),
       Line("session_started", <<>>) >>

\* the locals of generate_mermaid_diagram on entry to the loop
loop_entry(trace_data) ==
    [lines |-> header(trace_data), turn_number |-> 0, in_turn |-> FALSE]

\* lines 77-88
on_user_input(loc, event) ==
    LET turn_number == loc.turn_number + 1
        content == escape_text(event.content, DefaultMaxLength)
    IN  [loc EXCEPT
            !.turn_number = turn_number,
            !.lines = @ \o << Line("blank", <<>>),
                              Line("rect", <<>>),
                              Line("turn_note", str(turn_number)),
                              Line("blank", <<>>),
                              Line("user_arrow", content),
                              Line("append", <<>>) >>,
            !.in_turn = TRUE]

\* the request annotation written whether or not a turn is open
on_llm_request_unguarded(loc, event) ==
    [loc EXCEPT !.lines = @ \o << Line("blank", <<>>),
                                  Line("request", repr_list(event.tools)) >>]

\* lines 90-93
on_llm_request(loc, event) ==
    IF loc.in_turn
    THEN [loc EXCEPT !.lines = @ \o << Line("blank", <<>>),
                                       Line("request", repr_list(event.tools)) >>]
    ELSE loc

\* the items of the dict taken last to first
format_parameters_reversed(parameters) ==
    LET n == Len(parameters)
        params_str ==
            join(<<",", " ">>,
                 [i \in 1..n |->
                     <<parameters[n + 1 - i][1], "=">>
                     \o Take(repr(parameters[n + 1 - i][2]), ParamValueMaxLength)])
    IN  IF Len(params_str) > ParamsMaxLength
        THEN Take(params_str, ParamsMaxLength) \o Ellipsis
        ELSE params_str

\* lines 102-104
format_parameters(parameters) ==
    LET params_str ==
            join(<<",", " ">>,
                 [i \in 1..Len(parameters) |->
                     <<parameters[i][1], "=">>
                     \o Take(repr(parameters[i][2]), ParamValueMaxLength)])
    IN  IF Len(params_str) > ParamsMaxLength
        THEN Take(params_str, ParamsMaxLength) \o Ellipsis
        ELSE params_str

\* lines 95-109
on_tool_call(loc, event) ==
    IF event.tool_name = MemoryToolName
    THEN [loc EXCEPT
            !.lines = @ \o << Line("blank", <<>>),
                              Line("decides", event.command),
                              Line("call", event.command \o <<"(">>
                                           \o format_parameters(event.parameters)
                                           \o <<")">>),
                              Line("activate", <<>>) >>]
    ELSE loc

\* lines 111-125
on_tool_result(loc, event) ==
    IF event.tool_name = MemoryToolName
    THEN [loc EXCEPT
            !.lines = @ \o <<
                IF event.success
                THEN Line("return", escape_text(event.result, ResultMaxLength))
                ELSE Line("return",
                          ErrorPrefix
                          \o escape_text(IF event.error = <<>>
                                         THEN ErrorFallback ELSE event.error,
                                         ResultMaxLength)),
                Line("deactivate", <<>>) >>]
    ELSE loc

\* the response written with the turn left open
on_llm_response_unclosed(loc, event) ==
    LET content == escape_text(event.content, ResponseMaxLength)
    IN  [loc EXCEPT !.lines = @ \o << Line("blank", <<>>),
                                      Line("ready", <<>>),
                                      Line("response", content),
                                      Line("append", <<>>),
                                      Line("reply", content) >>]

\* the response followed by an end whether or not a turn is open
on_llm_response_always_closing(loc, event) ==
    LET content == escape_text(event.content, ResponseMaxLength)
    IN  [loc EXCEPT !.lines = @ \o << Line("blank", <<>>),
                                      Line("ready", <<>>),
                                      Line("response", content),
                                      Line("append", <<>>),
                                      Line("reply", content),
                                      Line("end", <<>>) >>,
                    !.in_turn = FALSE]

\* lines 127-138
on_llm_response(loc, event) ==
    LET content == escape_text(event.content, ResponseMaxLength)
        written == loc.lines \o << Line("blank", <<>>),
                                   Line("ready", <<>>),
                                   Line("response", content),
                                   Line("append", <<>>),
                                   Line("reply", content) >>
    IN  IF loc.in_turn
        THEN [loc EXCEPT !.lines = written \o <<Line("end", <<>>)>>,
                         !.in_turn = FALSE]
        ELSE [loc EXCEPT !.lines = written]

\* lines 140-142
on_error(loc, event) ==
    [loc EXCEPT !.lines = @ \o <<Line("error_note",
                                      ErrorPrefix
                                      \o escape_text(event.message,
                                                     ErrorMaxLength))>>]

\* an event of a type without a branch, written as a note
no_branch_noted(loc, event) ==
    [loc EXCEPT !.lines = @ \o <<Line("note", event.event_type)>>]

\* lines 74-142: no branch of the if/elif chain matches (token_usage, or a
\* type the renderer does not know)
no_branch(loc, event) == loc

RenderedTypes ==
    {"user_input", "llm_request", "tool_call", "tool_result", "llm_response",
     "error"}

\* lines 75-142: the body of the loop for one event
render_event(loc, event) ==
    CASE event.event_type = "user_input" -> on_user_input(loc, event)
      [] event.event_type = "llm_request" -> on_llm_request(loc, event)
      [] event.event_type = "tool_call" -> on_tool_call(loc, event)
      [] event.event_type = "tool_result" -> on_tool_result(loc, event)
      [] event.event_type = "llm_response" -> on_llm_response(loc, event)
      [] event.event_type = "error" -> on_error(loc, event)
      [] OTHER -> no_branch(loc, event)

\* lines 74-142: the loop
RECURSIVE render_events(_, _)
render_events(loc, events) ==
    IF events = <<>> THEN loc
    ELSE render_events(render_event(loc, Head(events)), Tail(events))

\* the footer written with the open turn left open
finish_unclosed(loc) ==
    [loc EXCEPT !.lines = @ \o << Line("blank", <<>>),
                                  Line("session_ended", <<>>),
                                  Line("fence_close", <<>>) >>]

\* lines 144-150
finish(loc) ==
    [loc EXCEPT !.lines = (IF loc.in_turn THEN @ \o <<Line("end", <<>>)>> ELSE @)
                          \o << Line("blank", <<>>),
                                Line("session_ended", <<>>),
                                Line("fence_close", <<>>) >>]

\* lines 43-152, as the list of lines that is joined into the output
generate_mermaid_diagram(trace_data) ==
    finish(render_events(loop_entry(trace_data), trace_data.events)).lines

\* no call of generate_mermaid_diagram in progress
IdleWalk ==
    [pc |-> "idle", trace_data |-> [session_id |-> <<>>, start_time |-> <<>>,
                                    model |-> <<>>, events |-> <<>>],
     pos |-> 0, lines |-> <<>>, turn_number |-> 0, in_turn |-> FALSE]

IdleTurn ==
    [pc |-> "idle", self |-> NoManager, response_text |-> <<>>,
     blocks |-> <<>>, tool_pending |-> FALSE, stream |-> <<>>, out |-> <<>>,
     messages_before |-> <<>>]

Init ==
    /\ conversation_manager = NoManager
    /\ managers = <<>>
    /\ traces = <<>>
    /\ replaced = <<>>
    /\ turns = [t \in Turns |-> IdleTurn]
    /\ alive = TRUE
    /\ walk = IdleWalk

\* ---- main.py: POST /api/session/initialize -------------------------------
initialize_session(api_key, cfg, prompt_ok, finalize_ok) ==
    /\ alive
    /\ LET old == conversation_manager
           k0 == IF old = NoManager THEN 0 ELSE managers[old].trace
           must_write == old # NoManager /\ ~Finalized(k0)
           tr1 == IF old # NoManager THEN trace_finalize(traces, k0) ELSE traces
       IN IF must_write /\ ~finalize_ok
          THEN \* finalize raised: the handler ends with the exception
               UNCHANGED vars
          ELSE IF api_key = "" \/ ~prompt_ok
          THEN \* HTTP 400 after the old session was finalized
               /\ traces' = tr1
               /\ UNCHANGED <<conversation_manager, managers, replaced, turns, alive, walk>>
          ELSE /\ Len(managers) < MaxManagers
               /\ Len(traces) < MaxTraces
               /\ traces' = Append(tr1, SessionTrace(cfg[1], cfg[2]))
               /\ replaced' = Append(replaced, 0)
               /\ managers' = Append(managers,
                                  ConversationManager(cfg[1], cfg[2], Len(traces) + 1))
               /\ conversation_manager' = Len(managers) + 1
               /\ UNCHANGED <<turns, alive, walk>>

\* ---- conversation.py: send_message_streaming -----------------------------
\* First segment, lines 98-119: up to the first await on the stream, or, when
\* tool_runner raises at once, through the except block to the yield of the
\* outward error event.
send_message_streaming(t, user_message, raises, stream) ==
    /\ alive
    /\ conversation_manager # NoManager
    /\ turns[t].pc = "idle"
    /\ \A s \in Turns : s < t => turns[s].pc # "idle"
    /\ LET m == conversation_manager
           msgs == Append(managers[m].messages,
                          [role |-> "user", content |-> user_message])
           items == turn_start_events(user_message, Len(msgs), raises)
       IN /\ managers' = [managers EXCEPT ![m].messages = msgs]
          /\ traces' = log_events(traces, managers[m].trace, t, items)
          /\ turns' = [turns EXCEPT ![t] =
                [@ EXCEPT !.pc = IF raises THEN "error" ELSE "stream",
                          !.self = m,
                          !.stream = IF raises THEN <<>> ELSE stream,
                          !.messages_before = managers[m].messages,
                          !.out = IF raises
                                  THEN <<[type |-> "error", data |-> [message |-> "APIError"]]>>
                                  ELSE <<>>]]
    /\ UNCHANGED <<conversation_manager, replaced, alive, walk>>

\* lines 125-132: the next signal is a text delta; it opens a new text block
\* of the message being streamed or extends the last one.
text_delta(t) ==
    /\ alive
    /\ turns[t].pc = "stream"
    /\ ~turns[t].tool_pending
    /\ turns[t].stream # <<>>
    /\ Head(turns[t].stream)[1] = "text"
    /\ LET new_block == Head(turns[t].stream)[2]
           chunk == Head(turns[t].stream)[3]
       IN turns' = [turns EXCEPT ![t] =
          [@ EXCEPT !.response_text = @ \o <<chunk>>,
                    !.blocks = IF new_block THEN Append(@, <<chunk>>)
                               ELSE [@ EXCEPT ![Len(@)] = @ \o <<chunk>>],
                    !.stream = Tail(@),
                    !.out = Append(@, [type |-> "text", data |-> <<chunk>>])]]
    /\ UNCHANGED <<conversation_manager, managers, traces, replaced, alive, walk>>

\* lines 135-145: the next signal is the start of a tool_use block
tool_use_start(t) ==
    /\ alive
    /\ turns[t].pc = "stream"
    /\ ~turns[t].tool_pending
    /\ turns[t].stream # <<>>
    /\ Head(turns[t].stream)[1] = "tool"
    /\ turns' = [turns EXCEPT ![t] =
          [@ EXCEPT !.tool_pending = TRUE,
                    !.out = Append(@, [type |-> "tool_use_start",
                                   data |-> [tool |-> "memory", id |-> "id"]])]]
    /\ UNCHANGED <<conversation_manager, managers, traces, replaced, alive, walk>>

\* The runner executes the memory tool between two messages; the tool logs
\* tool_call and tool_result into its trace sink, and the next message of the
\* loop starts with no blocks.
tool_exec(t) ==
    /\ alive
    /\ turns[t].pc = "stream"
    /\ turns[t].tool_pending
    /\ LET m == turns[t].self
           success == Head(turns[t].stream)[2]
       IN traces' = log_events(traces, managers[m].sink, t,
                        <<  <<"tool_call", "view">>, <<"tool_result", success>>  >>)
    /\ turns' = [turns EXCEPT ![t] =
          [@ EXCEPT !.tool_pending = FALSE, !.blocks = <<>>, !.stream = Tail(@)]]
    /\ UNCHANGED <<conversation_manager, managers, replaced, alive, walk>>

\* lines 201-207 reached from the stream or from until_done_async raising
stream_raises(t) ==
    /\ alive
    /\ turns[t].pc = "stream"
    /\ LET m == turns[t].self
       IN traces' = log_events(traces, managers[m].trace, t,
                        error_events("APIError"))
    /\ turns' = [turns EXCEPT ![t] =
          [@ EXCEPT !.pc = "error",
                    !.out = Append(@, [type |-> "error", data |-> [message |-> "APIError"]])]]
    /\ UNCHANGED <<conversation_manager, managers, replaced, alive, walk>>

\* the text accumulated from the deltas, kept whatever the final message holds
final_text_accumulated(blocks, response_text) == response_text

\* lines 150-154: the text of the first text block of the final message, or
\* the accumulated text when it has none
final_text(blocks, response_text) ==
    IF Len(blocks) > 0 THEN blocks[1] ELSE response_text

\* lines 147-199 (and 201-207 when a += raises): the stream ended and
\* until_done_async returned the final message, whose text blocks are
\* turns[t].blocks and whose usage is u.
stream_completes(t, u) ==
    /\ alive
    /\ turns[t].pc = "stream"
    /\ ~turns[t].tool_pending
    /\ turns[t].stream = <<>>
    /\ LET m == turns[t].self
           k == managers[m].trace
           text == final_text(turns[t].blocks, turns[t].response_text)
           msgs == Append(managers[m].messages,
                          [role |-> "assistant", content |-> text])
           tot == add_usage(managers[m].totals, u)
           items == << <<"llm_response", text>> >> \o
                    (IF usage_raises(u)
                     THEN error_events("TypeError")
                     ELSE << <<"token_usage", [delta |-> u, cumulative |-> tot]>> >>)
       IN /\ managers' = [managers EXCEPT ![m].messages = msgs, ![m].totals = tot]
          /\ traces' = log_events(traces, k, t, items)
          /\ turns' = [turns EXCEPT ![t] =
                [@ EXCEPT !.response_text = text,
                          !.pc = IF usage_raises(u) THEN "error" ELSE "done",
                          !.out = @ \o completion_out(u, tot)]]
    /\ UNCHANGED <<conversation_manager, replaced, alive, walk>>

\* ---- conversation.py: clear_memories (DELETE /api/memory/clear) ----------
\* The files of the memory store (line 216) are not part of the state.
clear_memories(finalize_ok) ==
    /\ alive
    /\ conversation_manager # NoManager
    /\ LET m == conversation_manager
           k == managers[m].trace
           cleared == clear_state(managers[m])
       IN IF ~Finalized(k) /\ ~finalize_ok
          THEN \* line 226 raised after lines 217-223 ran
               /\ managers' = [managers EXCEPT ![m] = cleared]
               /\ UNCHANGED <<conversation_manager, traces, replaced, turns, alive, walk>>
          ELSE /\ Len(traces) < MaxTraces
               /\ traces' = Append(trace_finalize(traces, k),
                                   SessionTrace(managers[m].model,
                                                managers[m].system_prompt))
               /\ replaced' = Append(replaced, k)
               /\ managers' = [managers EXCEPT ![m] =
                                  start_new_trace(cleared, Len(traces) + 1)]
               /\ UNCHANGED <<conversation_manager, turns, alive, walk>>

\* ---- main.py: lifespan shutdown ------------------------------------------
lifespan_shutdown(finalize_ok) ==
    /\ alive
    /\ \A t \in Turns : turns[t].pc # "stream"
    /\ alive' = FALSE
    /\ traces' = IF conversation_manager # NoManager /\ finalize_ok
                 THEN trace_finalize(traces, managers[conversation_manager].trace)
                 ELSE traces
    /\ UNCHANGED <<conversation_manager, managers, replaced, turns, walk>>

\* main.py chat_streaming: a POST /api/chat starts a turn
chat_streaming ==
    \E t \in Turns, um \in UserMessages, r \in BOOLEAN, st \in Streams :
        send_message_streaming(t, um, r, st)

\* every other step: the handlers of main.py and the later segments of the
\* turns in flight
OtherSteps ==
    \/ \E key \in ApiKeys, cfg \in Configs, p \in BOOLEAN, f \in BOOLEAN :
          initialize_session(key, cfg, p, f)
    \/ \E t \in Turns : text_delta(t)
    \/ \E t \in Turns : tool_use_start(t)
    \/ \E t \in Turns : tool_exec(t)
    \/ \E t \in Turns : stream_raises(t)
    \/ \E t \in Turns, u \in Usages : stream_completes(t, u)
    \/ \E f \in BOOLEAN : clear_memories(f)
    \/ \E f \in BOOLEAN : lifespan_shutdown(f)

Next == chat_streaming \/ OtherSteps

Spec == Init /\ [][Next]_vars

\* The single-session convention of the client: a chat request is sent only
\* after the previous one has ended, so at most one turn is in flight.
chat_streaming_sequential ==
    /\ \A s \in Turns : turns[s].pc # "stream"
    /\ chat_streaming

NextSequential == chat_streaming_sequential \/ OtherSteps

SpecSequential == Init /\ [][NextSequential]_vars

\* ---- generate_sequence_diagram.py: one call of generate_mermaid_diagram -----
\* The renderer is a pure function of the session record it is given; the
\* walk over the events is followed one iteration of the loop at a time.

MaxEvents == 3          \* length of a log of freely chosen events
MaxRenderedTurns == 3   \* turns of a well-formed log

Rep(c, n) == [i \in 1..n |-> c]

\* texts below, at and above each budget, with and without characters that
\* escape_text rewrites
Texts ==
    {<<"h", "i">>, <<"a", "\n", "\"", "b">>}
    \cup {Rep("x", n) : n \in {ErrorMaxLength, ErrorMaxLength + 1,
                               DefaultMaxLength + 1, ResponseMaxLength + 1}}
    \cup {Rep("x", ErrorMaxLength - 2) \o <<"\n", "y">>,
          Rep("x", ResponseMaxLength) \o <<"\"">>}

OtherToolName == <<"b", "a", "s", "h">>

ParameterChoices ==
    { <<>>,
      << <<"p", <<"a">>>> >>,
      << <<"p", <<"a">>>>, <<"q", <<"b">>>> >>,
      << <<"q", <<"b">>>>, <<"p", <<"a", "\n">>>> >>,
      << <<"p", Rep("x", ParamValueMaxLength)>>, <<"q", <<"b">>>> >>,
      << <<"p", Rep("x", ParamValueMaxLength)>>,
         <<"q", Rep("y", ParamValueMaxLength)>>, <<"r", <<"c">>>> >> }

user_input_event(content) == [Event("user_input") EXCEPT !.content = content]
llm_request_event == [Event("llm_request") EXCEPT !.tools = <<MemoryToolName>>]
tool_call_event(tool_name, command, parameters) ==
    [Event("tool_call") EXCEPT !.tool_name = tool_name, !.command = command,
                               !.parameters = parameters]
tool_result_event(tool_name, success, result, error) ==
    [Event("tool_result") EXCEPT !.tool_name = tool_name, !.success = success,
                                 !.result = result, !.error = error]
llm_response_event(content) == [Event("llm_response") EXCEPT !.content = content]
token_usage_event == Event("token_usage")
error_event(message) == [Event("error") EXCEPT !.message = message]

View == <<"v", "i", "e", "w">>

\* one event of each shape, with short texts
EventChoices ==
    { user_input_event(<<"h", "i">>),
      llm_request_event,
      tool_call_event(MemoryToolName, View, << <<"p", <<"a">>>> >>),
      tool_call_event(OtherToolName, View, <<>>),
      tool_result_event(MemoryToolName, TRUE, <<"o", "k">>, <<>>),
      tool_result_event(MemoryToolName, FALSE, <<>>, <<"n", "o">>),
      tool_result_event(OtherToolName, TRUE, <<"o", "k">>, <<>>),
      llm_response_event(<<"o", "k">>),
      token_usage_event,
      error_event(<<"n", "o">>) }

FreeLogs == UNION {[1..n -> EventChoices] : n \in 0..MaxEvents}

RECURSIVE WellFormedLog(_)
WellFormedLog(n) ==
    IF n = 0 THEN <<>>
    ELSE WellFormedLog(n - 1)
         \o << user_input_event(<<"h", "i">>), llm_request_event,
               llm_response_event(<<"o", "k">>) >>

WellFormedLogs == {WellFormedLog(n) : n \in 0..MaxRenderedTurns}

\* every text-bearing field with every text, inside a turn and outside
TextEvents ==
    {user_input_event(x) : x \in Texts}
    \cup {llm_response_event(x) : x \in Texts}
    \cup {tool_call_event(MemoryToolName, x, <<>>) : x \in Texts}
    \cup {tool_call_event(MemoryToolName, View, ps) : ps \in ParameterChoices}
    \cup {tool_result_event(MemoryToolName, TRUE, x, <<>>) : x \in Texts}
    \cup {tool_result_event(MemoryToolName, FALSE, <<>>, x) : x \in Texts \cup {<<>>}}
    \cup {error_event(x) : x \in Texts}
    \cup {Event("error")}

TextLogs ==
    {<<e>> : e \in TextEvents}
    \cup {<<user_input_event(<<"h", "i">>), e>> : e \in TextEvents}

Logs == FreeLogs \cup WellFormedLogs \cup TextLogs

Sessions ==
    {[session_id |-> <<"s", "1">>, start_time |-> <<"t", "0">>,
      model |-> <<"m", "1">>, events |-> log] : log \in Logs}

conv_vars == <<conversation_manager, managers, traces, replaced, turns, alive>>

\* lines 53-72: the call has written the header and enters the loop
InitRender ==
    /\ conversation_manager = NoManager
    /\ managers = <<>>
    /\ traces = <<>>
    /\ replaced = <<>>
    /\ turns = [t \in Turns |-> IdleTurn]
    /\ alive = TRUE
    /\ \E trace_data \in Sessions :
          walk = [pc |-> "loop", trace_data |-> trace_data, pos |-> 1,
                  lines |-> loop_entry(trace_data).lines,
                  turn_number |-> loop_entry(trace_data).turn_number,
                  in_turn |-> loop_entry(trace_data).in_turn]

events == walk.trace_data.events

\* the loop is at an event of this type
at(event_type) ==
    /\ walk.pc = "loop"
    /\ walk.pos <= Len(events)
    /\ events[walk.pos].event_type = event_type

walk_user_input ==
    /\ at("user_input")
    /\ walk' = [on_user_input(walk, events[walk.pos]) EXCEPT !.pos = @ + 1]
    /\ UNCHANGED conv_vars

walk_llm_request ==
    /\ at("llm_request")
    /\ walk' = [on_llm_request(walk, events[walk.pos]) EXCEPT !.pos = @ + 1]
    /\ UNCHANGED conv_vars

walk_tool_call ==
    /\ at("tool_call")
    /\ walk' = [on_tool_call(walk, events[walk.pos]) EXCEPT !.pos = @ + 1]
    /\ UNCHANGED conv_vars

walk_tool_result ==
    /\ at("tool_result")
    /\ walk' = [on_tool_result(walk, events[walk.pos]) EXCEPT !.pos = @ + 1]
    /\ UNCHANGED conv_vars

walk_llm_response ==
    /\ at("llm_response")
    /\ walk' = [on_llm_response(walk, events[walk.pos]) EXCEPT !.pos = @ + 1]
    /\ UNCHANGED conv_vars

walk_error ==
    /\ at("error")
    /\ walk' = [on_error(walk, events[walk.pos]) EXCEPT !.pos = @ + 1]
    /\ UNCHANGED conv_vars

walk_no_branch ==
    /\ walk.pc = "loop"
    /\ walk.pos <= Len(events)
    /\ events[walk.pos].event_type \notin RenderedTypes
    /\ walk' = [no_branch(walk, events[walk.pos]) EXCEPT !.pos = @ + 1]
    /\ UNCHANGED conv_vars

\* lines 144-152: the loop is over
walk_finish ==
    /\ walk.pc = "loop"
    /\ walk.pos > Len(events)
    /\ walk' = [finish(walk) EXCEPT !.pc = "done"]
    /\ UNCHANGED conv_vars

NextRender ==
    \/ walk_user_input
    \/ walk_llm_request
    \/ walk_tool_call
    \/ walk_tool_result
    \/ walk_llm_response
    \/ walk_error
    \/ walk_no_branch
    \/ walk_finish

SpecRender == InitRender /\ [][NextRender]_vars

\* ==== properties ===========================================================

TraceIds == 1..Len(traces)
ManagerIds == 1..Len(managers)
Terminal == {"done", "error"}

Last(seq) == seq[Len(seq)]

\* the outward event o is the error event of exception e
IsError(o, e) == o.type = "error" /\ o.data.message = e

\* positions <<k, i>> of the events that turn t logged, in any trace
TurnEvents(t) ==
    {p \in UNION {{<<k, i>> : i \in 1..Len(traces[k].events)} : k \in TraceIds} :
        traces[p[1]].events[p[2]].turn = t}

EventAt(p) == traces[p[1]].events[p[2]]

TurnEventsOfType(t, type) == {p \in TurnEvents(t) : EventAt(p).event_type = type}

\* concatenation of the outward text events of a sequence of outward events
RECURSIVE OutText(_)
OutText(o) ==
    IF o = <<>> THEN <<>>
    ELSE (IF Head(o).type = "text" THEN Head(o).data ELSE <<>>) \o OutText(Tail(o))

\* sum of the deltas of the token_usage events among the first i events
RECURSIVE SumDeltas(_, _)
SumDeltas(evs, i) ==
    IF i = 0 THEN ZeroTotals
    ELSE LET s == SumDeltas(evs, i - 1)
         IN IF evs[i].event_type = "token_usage"
            THEN [j \in 1..4 |-> s[j] + evs[i].payload.delta[j]]
            ELSE s

\* ---- C1 -------------------------------------------------------------------
\* C1: every turn that has started (its LLM call was made, and possibly
\* raised at once) has logged user_input and then llm_request, next to each
\* other in one trace, before any other event of the turn.  A manager's trace
\* is only ever replaced by a newly constructed one, so the turn's other
\* events lie later in the same trace or in a trace constructed later.
C1_UserInputLoggedFirst ==
    \A t \in Turns : turns[t].pc # "idle" =>
        \E k \in TraceIds : \E i \in 1..(Len(traces[k].events) - 1) :
            /\ traces[k].events[i].turn = t
            /\ traces[k].events[i].event_type = "user_input"
            /\ traces[k].events[i + 1].turn = t
            /\ traces[k].events[i + 1].event_type = "llm_request"
            /\ \A p \in TurnEvents(t) : (p[1] = k /\ p[2] >= i) \/ p[1] > k

\* a turn whose LLM call raised at once, after an earlier turn had completed
C1_Witness ==
    \E t \in Turns :
        /\ t > 1
        /\ turns[t - 1].pc = "done"
        /\ turns[t].pc = "error"
        /\ turns[t].out = <<[type |-> "error", data |-> [message |-> "APIError"]]>>
        /\ Cardinality(TurnEvents(t)) = 3

\* ---- C2 -------------------------------------------------------------------
\* C2: in every trace, the cumulative fields of every token_usage event equal
\* the sum of the deltas of the token_usage events up to and including it.
C2_CumulativeIsSumOfDeltas ==
    \A k \in TraceIds : \A i \in 1..Len(traces[k].events) :
        traces[k].events[i].event_type = "token_usage" =>
            traces[k].events[i].payload.cumulative = SumDeltas(traces[k].events, i)

\* ---- C3 -------------------------------------------------------------------
\* C3: the step in which a turn's LLM call fails appends an error event of
\* that turn to its manager's trace, emits the outward error event as the
\* turn's last outward event and leaves the manager's four counters as they
\* were; and no earlier step of such a turn changes the counters either (the
\* only step of a turn that changes them is the one after the call succeeded).
C3_LLMFailureStep(t) ==
    /\ turns[t].pc # "error"
    /\ turns'[t].pc = "error"
    /\ IsError(Last(turns'[t].out), "APIError")

C3_BeforeCompletion(t) ==
    /\ turns'[t] # turns[t]
    /\ ~(turns[t].pc = "stream" /\ turns[t].stream = <<>>
         /\ turns'[t].pc \in Terminal
         /\ ~IsError(Last(turns'[t].out), "APIError"))

C3_FailedCallKeepsCounters ==
    [][\A t \in Turns :
        LET m == turns'[t].self IN
        /\ C3_LLMFailureStep(t) =>
              LET k == managers[m].trace IN
              /\ Len(traces'[k].events) > Len(traces[k].events)
              /\ Last(traces'[k].events).event_type = "error"
              /\ Last(traces'[k].events).turn = t
              /\ Last(turns'[t].out).type = "error"
              /\ managers'[m].totals = managers[m].totals
        /\ C3_BeforeCompletion(t) => managers'[m].totals = managers[m].totals
      ]_vars

\* an LLM failure in mid-stream on a manager whose counters are not zero
C3_Witness ==
    \E t \in Turns :
        /\ turns[t].pc = "error"
        /\ Len(turns[t].out) > 1
        /\ IsError(Last(turns[t].out), "APIError")
        /\ managers[turns[t].self].totals = <<2, 1, 0, 1>>
        /\ TurnEventsOfType(t, "error") # {}

\* ---- C4 -------------------------------------------------------------------
\* C4: after a turn that ended with an outward error event, the message
\* history of its manager equals what it was before the turn began.
C4_FailedTurnKeepsMessages ==
    \A t \in Turns :
        turns[t].pc = "error" =>
            managers[turns[t].self].messages = turns[t].messages_before

\* ---- C5 -------------------------------------------------------------------
\* C5: for every turn that ended with done, the concatenation of its outward
\* text events equals the content of the llm_response event it logged.
C5_TextReconstruction ==
    \A t \in Turns :
        turns[t].pc = "done" =>
            \A p \in TurnEventsOfType(t, "llm_response") :
                OutText(turns[t].out) = EventAt(p).payload

\* ---- C6 -------------------------------------------------------------------
\* C6: a turn never begins before every earlier turn has reached done or
\* error.
C6_OneTurnAtATime ==
    \A t1, t2 \in Turns :
        (t1 < t2 /\ turns[t2].pc # "idle") => turns[t1].pc \in Terminal

\* ---- C7 -------------------------------------------------------------------
\* C7: a turn has at most one terminal outward event (done or error), it is
\* the last outward event, and the turn has one exactly when it has ended;
\* a turn that ended with done has logged its token_usage event and no error
\* event; a turn that ended with error has logged an error event and no
\* token_usage event.
C7_OneTerminalEvent ==
    \A t \in Turns :
        LET o == turns[t].out
            term == {i \in 1..Len(o) : o[i].type \in Terminal}
        IN /\ Cardinality(term) <= 1
           /\ term \subseteq {Len(o)}
           /\ (turns[t].pc \in Terminal) <=> (term # {})
           /\ turns[t].pc \in Terminal => Last(o).type = turns[t].pc
           /\ turns[t].pc = "done" =>
                 /\ Cardinality(TurnEventsOfType(t, "token_usage")) = 1
                 /\ TurnEventsOfType(t, "error") = {}
           /\ turns[t].pc = "error" =>
                 /\ Cardinality(TurnEventsOfType(t, "error")) = 1
                 /\ TurnEventsOfType(t, "token_usage") = {}

\* one turn ended with done, another with error after its call had succeeded
C7_Witness ==
    \E t1, t2 \in Turns :
        /\ turns[t1].pc = "done"
        /\ turns[t2].pc = "error"
        /\ IsError(Last(turns[t2].out), "TypeError")
        /\ Len(turns[t2].out) > 1

\* ---- C8 -------------------------------------------------------------------
\* C8: once a trace is finalized, no step changes it (no event is appended).
C8_FinalizedTraceFrozen ==
    [][\A k \in TraceIds : Finalized(k) => traces'[k] = traces[k]]_vars

\* ---- C9 -------------------------------------------------------------------
\* C9: a clear_memories call either ends with the old trace finalized and the
\* manager on a new trace, or leaves the manager (message history, counters,
\* current trace) exactly as it was.
C9_ResetIsAtomic ==
    [][(\E f \in BOOLEAN : clear_memories(f)) =>
          LET m == conversation_manager IN
          \/ /\ managers'[m].trace # managers[m].trace
             /\ traces'[managers[m].trace].end_time # "unset"
          \/ managers'[m] = managers[m]
      ]_vars

\* ---- C10 ------------------------------------------------------------------
\* C10: a step that gives a manager a new trace (a successful clear_memories)
\* leaves its message history empty and its four counters 0, leaves the old
\* trace finalized, and the new trace is a newly constructed one with the
\* manager's model and system prompt; and at all times the memory tool's
\* trace sink of every manager is that manager's current trace.
C10_SinkIsCurrentTrace ==
    \A m \in ManagerIds : managers[m].sink = managers[m].trace

C10_ResetPostcondition ==
    \A m \in ManagerIds :
        managers'[m].trace # managers[m].trace =>
            LET old == managers[m].trace
                new == managers'[m].trace
            IN /\ managers'[m].messages = <<>>
               /\ managers'[m].totals = ZeroTotals
               /\ traces'[old].end_time # "unset"
               /\ traces'[old].events = traces[old].events
               /\ new \notin TraceIds
               /\ traces'[new] = SessionTrace(managers[m].model,
                                              managers[m].system_prompt)
               /\ managers'[m].model = managers[m].model
               /\ managers'[m].system_prompt = managers[m].system_prompt

C10_ResetStartsNewSession ==
    [](C10_SinkIsCurrentTrace) /\ [][C10_ResetPostcondition]_vars

\* a manager configured with m2/p2 was reset after a turn, and the tool has
\* logged a call of a later turn into the new trace
C10_Witness ==
    \E m \in ManagerIds :
        LET k == managers[m].trace IN
        /\ replaced[k] # 0
        /\ Len(traces[replaced[k]].events) > 0
        /\ managers[m].model = "m2"
        /\ \E i \in 1..Len(traces[k].events) :
              traces[k].events[i].event_type = "tool_call"


\* ---- properties of the diagram renderer -------------------------------------

\* number of lines of one kind
Count(kind, lines) == Cardinality({i \in DOMAIN lines : lines[i].kind = kind})

Rendered == walk.pc = "done"

\* C11: for every event sequence the finished diagram has as many
\* grouping-open lines (rect) as grouping-close lines (end).
C11_GroupingsClosed ==
    Rendered => Count("rect", walk.lines) = Count("end", walk.lines)

\* the log is n turns, each user_input, llm_request, llm_response
IsWellFormed(log) ==
    /\ Len(log) % 3 = 0
    /\ \A i \in DOMAIN log :
          log[i].event_type
              = <<"user_input", "llm_request", "llm_response">>[((i - 1) % 3) + 1]

GroupingKinds == {"rect", "turn_note", "request", "response", "end"}

\* the grouping structure of a diagram: its rect, turn label, request,
\* response and end lines in order, the label with its turn number
Skeleton(lines) ==
    LET kept == SelectSeq(lines, LAMBDA l : l.kind \in GroupingKinds)
    IN  [i \in DOMAIN kept |->
            <<kept[i].kind,
              IF kept[i].kind = "turn_note" THEN kept[i].text ELSE <<>>>>]

\* n groupings, Turn 1 to Turn n, each with one request and one response
\* and closed before the next
WellFormedSkeleton(n) ==
    [i \in 1..(5 * n) |->
        LET j == ((i - 1) \div 5) + 1
            k == ((i - 1) % 5) + 1
        IN  <<(<<"rect", "turn_note", "request", "response", "end">>)[k],
              IF k = 2 THEN str(j) ELSE <<>>>>]

\* C12: a log of n well-formed turns renders exactly n groupings labelled
\* Turn 1..n in order, each with one request and one response annotation,
\* each closed before the next one opens and at the end of the diagram.
C12_WellFormedTurns ==
    (Rendered /\ IsWellFormed(events))
        => Skeleton(walk.lines) = WellFormedSkeleton(Len(events) \div 3)

C12_Witness ==
    /\ Rendered
    /\ IsWellFormed(events)
    /\ Len(events) >= 6
    /\ Count("rect", walk.lines) = Len(events) \div 3

\* the text of the last line of one kind
LastText(lines, kind) ==
    LET at_kind == {i \in DOMAIN lines : lines[i].kind = kind}
    IN  lines[CHOOSE i \in at_kind : \A j \in at_kind : j <= i].text

\* the event whose iteration of the loop has just run
Processed == walk.pc = "loop" /\ walk.pos > 1
last_event == events[walk.pos - 1]

\* the one normalization of the claim: breaks and quotes rewritten, then
\* truncation to the default budget with the ellipsis
Normalized(text) ==
    LET escaped == replace(replace(text, "\n", BreakMarker), "\"", <<"'">>)
    IN  IF Len(escaped) > DefaultMaxLength
        THEN Take(escaped, DefaultMaxLength) \o Ellipsis
        ELSE escaped

\* C13: every text payload written into the diagram is normalized the same
\* way whatever event supplied it: user_input and llm_response content,
\* tool_call command, tool_result result and error, error message.
C13_SameNormalization ==
    Processed =>
        LET e == last_event
            is_memory == e.tool_name = MemoryToolName
        IN  /\ e.event_type = "user_input"
                => LastText(walk.lines, "user_arrow") = Normalized(e.content)
            /\ e.event_type = "llm_response"
                => LastText(walk.lines, "response") = Normalized(e.content)
            /\ (e.event_type = "tool_call" /\ is_memory)
                => LastText(walk.lines, "decides") = Normalized(e.command)
            /\ (e.event_type = "tool_result" /\ is_memory /\ e.success)
                => LastText(walk.lines, "return") = Normalized(e.result)
            /\ (e.event_type = "tool_result" /\ is_memory /\ ~e.success
                    /\ e.error # <<>>)
                => LastText(walk.lines, "return")
                       = ErrorPrefix \o Normalized(e.error)
            /\ e.event_type = "error"
                => LastText(walk.lines, "error_note")
                       = ErrorPrefix \o Normalized(e.message)

\* number of events of one type in a log, all of them or the memory tool's
EventsOfType(log, event_type) ==
    Cardinality({i \in DOMAIN log : log[i].event_type = event_type})

MemoryEventsOfType(log, event_type) ==
    Cardinality({i \in DOMAIN log : /\ log[i].event_type = event_type
                                    /\ log[i].tool_name = MemoryToolName})

\* C14 as stated: every tool_call event of the log has one call annotation
\* and every tool_result event one return annotation, whatever its tool.
C14_EveryToolEventAnnotated ==
    Rendered =>
        /\ Count("call", walk.lines) = EventsOfType(events, "tool_call")
        /\ Count("return", walk.lines) = EventsOfType(events, "tool_result")

IsPrefix(s, t) == Len(s) <= Len(t) /\ s = SubSeq(t, 1, Len(s))

ParameterKeys == {"p", "q", "r"}

\* shown is the escaped raw text, cut to the budget with the ellipsis when
\* it is longer
IsPreview(shown, raw, budget) ==
    LET escaped == replace(replace(raw, "\n", BreakMarker), "\"", <<"'">>)
    IN  /\ Len(escaped) <= budget => shown = escaped
        /\ Len(escaped) > budget =>
              /\ Len(shown) = budget + 3
              /\ IsPrefix(SubSeq(shown, 1, budget), escaped)
              /\ SubSeq(shown, budget + 1, budget + 3) = Ellipsis

\* C14, amended: every tool_call event of the memory tool has exactly one
\* call annotation, the command followed by its parameters in their original
\* order (all of them unless the list is cut with the ellipsis), and every
\* tool_result event of the memory tool exactly one return annotation: the
\* preview of result when success is true, the error prefix and the preview
\* of error when it is false.  Events of other tools are not drawn.
C14_MemoryToolAnnotated ==
    /\ Rendered =>
          /\ Count("call", walk.lines) = MemoryEventsOfType(events, "tool_call")
          /\ Count("return", walk.lines)
                 = MemoryEventsOfType(events, "tool_result")
    /\ (Processed /\ last_event.tool_name = MemoryToolName
                  /\ last_event.event_type = "tool_call") =>
          LET e == last_event
              shown == LastText(walk.lines, "call")
              keys == [i \in DOMAIN e.parameters |-> e.parameters[i][1]]
              arguments == SubSeq(shown, Len(e.command) + 2, Len(shown) - 1)
              shown_keys == SelectSeq(arguments, LAMBDA c : c \in ParameterKeys)
          IN  /\ IsPrefix(e.command \o <<"(">>, shown)
              /\ shown[Len(shown)] = ")"
              /\ IsPrefix(shown_keys, keys)
              /\ \/ shown_keys = keys
                 \/ /\ Len(arguments) = ParamsMaxLength + 3
                    /\ SubSeq(arguments, ParamsMaxLength + 1,
                              ParamsMaxLength + 3) = Ellipsis
    /\ (Processed /\ last_event.tool_name = MemoryToolName
                  /\ last_event.event_type = "tool_result") =>
          LET e == last_event
              shown == LastText(walk.lines, "return")
          IN  /\ e.success => IsPreview(shown, e.result, ResultMaxLength)
              /\ ~e.success =>
                    /\ IsPrefix(ErrorPrefix, shown)
                    /\ IsPreview(SubSeq(shown, Len(ErrorPrefix) + 1, Len(shown)),
                                 IF e.error = <<>> THEN ErrorFallback
                                 ELSE e.error,
                                 ResultMaxLength)

C14_Witness ==
    /\ Processed
    /\ last_event.event_type = "tool_call"
    /\ last_event.tool_name = MemoryToolName
    /\ Len(last_event.parameters) >= 2
    /\ Count("call", walk.lines) = 1

\* the kinds of the lines of a diagram, in order
Kinds(lines) == [i \in DOMAIN lines |-> lines[i].kind]

\* the texts of the lines of one kind, in order
TextsOfKind(lines, kind) ==
    LET kept == SelectSeq(lines, LAMBDA l : l.kind = kind)
    IN  [i \in DOMAIN kept |-> kept[i].text]

C16_RequestOnlyInOpenTurn ==
    [][at("llm_request") =>
          /\ walk'.in_turn = walk.in_turn
          /\ walk'.turn_number = walk.turn_number
          /\ walk.in_turn =>
                /\ Len(walk'.lines) = Len(walk.lines) + 2
                /\ SubSeq(walk'.lines, 1, Len(walk.lines)) = walk.lines
                /\ Count("request", walk'.lines)
                       = Count("request", walk.lines) + 1
          /\ ~walk.in_turn => walk'.lines = walk.lines]_vars

\* a request reached after an llm_response closed the turn, and skipped
C16_Witness ==
    /\ Processed
    /\ last_event.event_type = "llm_request"
    /\ ~walk.in_turn
    /\ walk.turn_number = 1
    /\ Count("end", walk.lines) = 1
    /\ Count("request", walk.lines) = 0

\* the log without its token_usage events
WithoutTokenUsage(log) ==
    SelectSeq(log, LAMBDA e : e.event_type # "token_usage")

\* C17: token_usage events are invisible to the renderer: the diagram of a
\* log is the diagram of the same log with its token_usage events removed,
\* and an iteration of the loop at a token_usage event changes neither the
\* open-grouping flag, nor the turn counter, nor the lines.
C17_TokenUsageInvisible ==
    /\ [](Rendered =>
            walk.lines
              = generate_mermaid_diagram(
                    [walk.trace_data EXCEPT !.events = WithoutTokenUsage(@)]))
    /\ [][at("token_usage") =>
            /\ walk'.in_turn = walk.in_turn
            /\ walk'.turn_number = walk.turn_number
            /\ walk'.lines = walk.lines]_vars

\* a finished diagram of a log with a token_usage event inside an open turn
C17_Witness ==
    /\ Rendered
    /\ Len(events) = 3
    /\ events[1].event_type = "user_input"
    /\ events[2].event_type = "token_usage"
    /\ events[3].event_type = "llm_response"
    /\ Count("end", walk.lines) = 1

\* line breaks and double quotes rewritten, nothing cut
Escaped(text) == replace(replace(text, "\n", BreakMarker), "\"", <<"'">>)

\* C18: for every error event whose message is longer than the budget, the
\* annotation holds the first budget characters of the escaped message
\* followed by the ellipsis, and not the full message.
C18_LongErrorTruncated ==
    (Processed /\ last_event.event_type = "error"
               /\ Len(last_event.message) > ErrorMaxLength) =>
        LET shown == LastText(walk.lines, "error_note")
            body == SubSeq(shown, Len(ErrorPrefix) + 1, Len(shown))
            escaped == Escaped(last_event.message)
        IN  /\ IsPrefix(ErrorPrefix, shown)
            /\ body = SubSeq(escaped, 1, ErrorMaxLength) \o Ellipsis
            /\ ~IsPrefix(escaped, body)

C18_Witness ==
    /\ Processed
    /\ last_event.event_type = "error"
    /\ Len(last_event.message) > ErrorMaxLength
    /\ Len(LastText(walk.lines, "error_note"))
           = Len(ErrorPrefix) + ErrorMaxLength + 3

\* ---- the orchestrator's logs given to the renderer --------------------------

\* An event of a SessionTrace as the record the renderer reads.  A message,
\* a chunk and an error type are one symbol of text each.
to_event(ev) ==
    CASE ev.event_type = "user_input" -> user_input_event(<<ev.payload>>)
      [] ev.event_type = "llm_request" -> llm_request_event
      [] ev.event_type = "tool_call" ->
            tool_call_event(MemoryToolName, <<ev.payload>>, <<>>)
      [] ev.event_type = "tool_result" ->
            tool_result_event(MemoryToolName, ev.payload,
                              IF ev.payload THEN <<"o", "k">> ELSE <<>>,
                              IF ev.payload THEN <<>> ELSE <<"n", "o">>)
      [] ev.event_type = "llm_response" -> llm_response_event(ev.payload)
      [] ev.event_type = "error" -> error_event(<<ev.payload>>)
      [] OTHER -> Event(ev.event_type)

\* the session record of trace k
session_data(k) ==
    [session_id |-> <<"s">> \o str(k), start_time |-> <<"t", "0">>,
     model |-> <<traces[k].model>>,
     events |-> [i \in DOMAIN traces[k].events |-> to_event(traces[k].events[i])]]

\* every rect but the last is followed by an end before the next rect
ClosedBeforeNextOpens(lines) ==
    \A i, j \in DOMAIN lines :
        (i < j /\ lines[i].kind = "rect" /\ lines[j].kind = "rect")
            => \E c \in (i + 1)..(j - 1) : lines[c].kind = "end"

\* C19: every log the orchestrator produces by running turns one after
\* another renders with balanced groupings: each grouping is closed before
\* the next one opens, and there are as many rect lines as end lines.
C19_SequentialLogsBalanced ==
    \A k \in TraceIds :
        LET diagram == generate_mermaid_diagram(session_data(k))
        IN  /\ ClosedBeforeNextOpens(diagram)
            /\ Count("rect", diagram) = Count("end", diagram)

\* ---- the order of a successful turn ------------------------------------------

\* the event types of turn t in the order they were logged, over the traces
\* 1..k (a trace made by a reset is later than the one it replaced)
RECURSIVE TurnLog(_, _)
TurnLog(t, k) ==
    IF k = 0 THEN <<>>
    ELSE LET own == SelectSeq(traces[k].events, LAMBDA ev : ev.turn = t)
         IN  TurnLog(t, k - 1) \o [i \in DOMAIN own |-> own[i].event_type]

\* user_input, llm_request, tool_call/tool_result pairs, llm_response,
\* token_usage
IsSuccessfulTurnLog(s) ==
    /\ Len(s) >= 4
    /\ (Len(s) - 4) % 2 = 0
    /\ s[1] = "user_input"
    /\ s[2] = "llm_request"
    /\ \A i \in 3..(Len(s) - 2) :
          s[i] = IF (i - 3) % 2 = 0 THEN "tool_call" ELSE "tool_result"
    /\ s[Len(s) - 1] = "llm_response"
    /\ s[Len(s)] = "token_usage"

Emitted(t, type) == \E i \in DOMAIN turns[t].out : turns[t].out[i].type = type

\* this step appends an assistant message to the history of manager m
AppendsAssistant(m) ==
    /\ Len(managers'[m].messages) = Len(managers[m].messages) + 1
    /\ Last(managers'[m].messages).role = "assistant"

\* the llm_response events this step appends to trace k
NewResponses(k) ==
    {i \in (Len(traces[k].events) + 1)..Len(traces'[k].events) :
        traces'[k].events[i].event_type = "llm_response"}

\* C20: when done has been emitted the turn's events are, in order,
\* user_input, llm_request, zero or more tool_call/tool_result, llm_response,
\* token_usage; a step appends the assistant message to a manager's history
\* exactly when it appends an llm_response event to that manager's trace,
\* both with the same text; and in the step that completes a turn that text
\* is the first text block of the final message.
C20_SuccessfulTurnOrder ==
    /\ [](\A t \in Turns :
            Emitted(t, "done") => IsSuccessfulTurnLog(TurnLog(t, Len(traces))))
    /\ [][/\ \A m \in ManagerIds :
                /\ AppendsAssistant(m) =>
                      /\ Cardinality(NewResponses(managers[m].trace)) = 1
                      /\ \A i \in NewResponses(managers[m].trace) :
                            traces'[managers[m].trace].events[i].payload
                                = Last(managers'[m].messages).content
                /\ ~AppendsAssistant(m) =>
                      \A k \in TraceIds :
                          (managers[m].trace = k) => NewResponses(k) = {}
          /\ \A t \in Turns :
                (turns[t].pc = "stream" /\ turns'[t].pc = "done"
                    /\ Len(turns[t].blocks) > 0) =>
                    Last(managers'[turns[t].self].messages).content
                        = turns[t].blocks[1]]_vars

\* a completed turn with a tool use whose final message has two text blocks
C20_Witness ==
    \E t \in Turns :
        /\ turns[t].pc = "done"
        /\ Emitted(t, "done")
        /\ TurnLog(t, Len(traces))
              = <<"user_input", "llm_request", "tool_call", "tool_result",
                  "llm_response", "token_usage">>
        /\ Len(turns[t].blocks) = 2
        /\ managers[turns[t].self].messages # <<>>
        /\ Last(managers[turns[t].self].messages).content = turns[t].blocks[1]

\* ---- the token snapshot of a turn --------------------------------------------

\* the done events among the outward events of turn t
DoneEvents(t) == {i \in DOMAIN turns[t].out : turns[t].out[i].type = "done"}

\* C21: the snapshot carried by a turn's done event is the payload of the
\* one token_usage event logged for that turn (same deltas, same cumulative
\* totals), and in the step that emits done its totals are what
\* get_token_stats returns for the turn's manager after the step, whatever
\* other turns and resets are interleaved at the turn's suspension points.
C21_DoneSnapshot ==
    /\ [](\A t \in Turns : \A i \in DoneEvents(t) :
            /\ Cardinality(TurnEventsOfType(t, "token_usage")) = 1
            /\ \A p \in TurnEventsOfType(t, "token_usage") :
                  /\ EventAt(p).payload.delta = turns[t].out[i].data.last
                  /\ EventAt(p).payload.cumulative = turns[t].out[i].data.total)
    /\ [][\A t \in Turns :
            (turns[t].pc = "stream" /\ turns'[t].pc = "done") =>
                /\ Last(turns'[t].out).type = "done"
                /\ Last(turns'[t].out).data.total = get_token_stats(turns[t].self)']_vars

\* a turn that started first and completed after a later turn of the same
\* manager had completed: its totals are the later turn's totals plus its
\* own deltas
C21_Witness ==
    \E t, s \in Turns :
        /\ t < s
        /\ turns[t].self = turns[s].self
        /\ DoneEvents(t) # {} /\ DoneEvents(s) # {}
        /\ Last(turns[t].out).data.total
              = add_usage(Last(turns[s].out).data.total, Last(turns[t].out).data.last)
        /\ Last(turns[s].out).data.total = Last(turns[s].out).data.last

\* ---- the counters against the trace ------------------------------------------

NoTurnExecuting == \A t \in Turns : turns[t].pc # "stream"

\* C22: whenever no turn is executing, the four in-memory counters of every
\* manager equal the sum of the deltas of the token_usage events in the
\* manager's current trace.
C22_CountersMatchTrace ==
    NoTurnExecuting =>
        \A m \in ManagerIds :
            get_token_stats(m)
                = SumDeltas(traces[managers[m].trace].events,
                            Len(traces[managers[m].trace].events))

\* ---- no close without an open grouping ---------------------------------------

\* C23: at every point of the walk the end lines written so far are at most
\* the rect lines written so far (fewer while the loop has a grouping open),
\* a step
\* writes an end line only when a grouping is open, and an llm_response
\* reached with no open grouping writes its response annotations and no end
\* line.
C23_NoCloseWithoutOpen ==
    /\ [](walk.pc # "idle" =>
            /\ Count("end", walk.lines) <= Count("rect", walk.lines)
            /\ (walk.pc = "loop" /\ walk.in_turn) =>
                  Count("end", walk.lines) < Count("rect", walk.lines))
    /\ [][/\ Count("end", walk'.lines) > Count("end", walk.lines)
                => walk.in_turn
          /\ (at("llm_response") /\ ~walk.in_turn) =>
                /\ Len(walk'.lines) = Len(walk.lines) + 5
                /\ SubSeq(walk'.lines, 1, Len(walk.lines)) = walk.lines
                /\ Kinds(SubSeq(walk'.lines, Len(walk.lines) + 1,
                                Len(walk'.lines)))
                       = <<"blank", "ready", "response", "append", "reply">>
                /\ ~walk'.in_turn]_vars

\* a second llm_response reached after the first one closed the only turn
C23_Witness ==
    /\ Processed
    /\ last_event.event_type = "llm_response"
    /\ Count("rect", walk.lines) = 1
    /\ Count("end", walk.lines) = 1
    /\ Count("response", walk.lines) = 2

====
